---- MODULE Spec2Model ----
(***************************************************************************)
(* The two maintenance scripts of FreeTimeChat:                            *)
(*   scripts/fix-admin-auth.py         (the injector)                      *)
(*   scripts/fix-duplicate-headers.py  (the substituter)                   *)
(*                                                                         *)
(* A file's text is a sequence of tokens.  A token is either one of the    *)
(* literals the scripts search for or write, a line terminator, an indent, *)
(* or "x", a stretch of any other text.  No literal of the scripts is a    *)
(* substring of another token, so Python's `s in line` is the occurrence   *)
(* of the literal's token sequence in the line's token sequence.           *)
(***************************************************************************)
EXTENDS Integers, Sequences, FiniteSets, TLC

(* ------------------------------ bounds -------------------------------- *)

\* Longest file text (in tokens) the per-file specifications start from.
MaxLen == 4
\* Longest file text (in blocks of Blocks) SpecSub also starts from.
MaxBlocks == 3
\* Runs of a script in one behaviour.
MaxRuns == 2
\* Files of the list that are missing or not accessible at the start.
MaxFaults == 1

(* ------------------------------ tokens -------------------------------- *)

NL == "\n"
INDENT == "  "
ANCHOR == "export default function"
CONST == "const"
MARKER_TAIL == " { getAuthHeaders } = useAuth();"
TEXT == "x"

\* 'const { getAuthHeaders } = useAuth();'
marker == <<CONST, MARKER_TAIL>>
\* '  const { getAuthHeaders } = useAuth();\n'
inserted_line == <<INDENT, CONST, MARKER_TAIL, NL>>

HEADERS_OPEN == "headers: {"
CONTENT_TYPE == "'Content-Type': 'application/json',"
CLOSE_BRACE == "},"
HEADERS_AUTH == "headers: getAuthHeaders(),"
SPREAD_AUTH == "...getAuthHeaders(),"
SP == " "
SP8 == "        "
SP10 == "          "

\* "headers: {\n          ...getAuthHeaders(),\n          'Content-Type': 'application/json',\n        },"
replacement_reformatted ==
    << HEADERS_OPEN, NL, SP10, CONTENT_TYPE, NL, SP8, CLOSE_BRACE, NL, SP8,
       HEADERS_AUTH, NL >>
replacement ==
    << HEADERS_OPEN, NL, SP10, SPREAD_AUTH, NL, SP10, CONTENT_TYPE, NL, SP8, CLOSE_BRACE >>

\* The characters \s matches.
IsSpace(t) == t \in {SP, NL, INDENT, SP8, SP10}

(* ------------------------------ file lists ---------------------------- *)

\* Paths are given relative to .../FreeTimeChat/apps/web/src/app/admin/.
admin_files ==
    << "audit/page.tsx", "users/page.tsx", "users/[id]/page.tsx", "roles/page.tsx",
       "projects/page.tsx", "time-entries/page.tsx", "reports/page.tsx" >>

files_to_fix_with_roles ==
    << "users/[id]/page.tsx", "roles/page.tsx", "time-entries/page.tsx" >>
files_to_fix ==
    << "users/[id]/page.tsx", "users/page.tsx", "time-entries/page.tsx" >>

Range(s) == { s[k] : k \in 1..Len(s) }
Paths == Range(admin_files) \cup Range(files_to_fix)

(* ------------------------ text and line helpers ----------------------- *)

\* `pat in line` for token sequences.
Contains(line, pat) ==
    \E k \in 0..(Len(line) - Len(pat)) : SubSeq(line, k + 1, k + Len(pat)) = pat

IsPrefix(s, t) == Len(s) <= Len(t) /\ SubSeq(t, 1, Len(s)) = s

\* f.readlines(): the text cut after every line terminator, terminators kept; a
\* last line without terminator is a line too.
RECURSIVE ReadLinesFrom(_, _, _)
ReadLinesFrom(content, k, cur) ==
    IF k > Len(content)
    THEN IF cur = <<>> THEN <<>> ELSE <<cur>>
    ELSE IF content[k] = NL
         THEN <<Append(cur, NL)>> \o ReadLinesFrom(content, k + 1, <<>>)
         ELSE ReadLinesFrom(content, k + 1, Append(cur, content[k]))

readlines(content) == ReadLinesFrom(content, 1, <<>>)

\* f.writelines(lines): the lines one after the other, nothing added between.
RECURSIVE writelines(_)
writelines(lines) ==
    IF lines = <<>> THEN <<>> ELSE lines[1] \o writelines(Tail(lines))

(* ------------------------------ injector ------------------------------ *)

\* any('const { getAuthHeaders } = useAuth();' in line for line in lines)
has_get_auth_headers_exact(lines) ==
    \E k \in 1..Len(lines) : lines[k] = inserted_line
has_get_auth_headers_first(lines) ==
    Len(lines) > 0 /\ Contains(lines[1], marker)
has_get_auth_headers(lines) ==
    \E k \in 1..Len(lines) : Contains(lines[k], marker)

\* while j < len(lines) and 'const' not in lines[j]: j += 1   (j is 0-based in
\* the script, 1-based here); the result is the value of j when the loop ends.
RECURSIVE WhileStop_short(_, _)
WhileStop_short(lines, j) ==
    IF j < Len(lines) /\ ~Contains(lines[j], <<CONST>>)
    THEN WhileStop_short(lines, j + 1) ELSE j
RECURSIVE WhileStop(_, _)
WhileStop(lines, j) ==
    IF j <= Len(lines) /\ ~Contains(lines[j], <<CONST>>)
    THEN WhileStop(lines, j + 1) ELSE j

\* The for loop over enumerate(lines), from line i with new_lines built so far:
\* the result is [new_lines, added].
RECURSIVE ForLoop_every_anchor(_, _, _)
ForLoop_every_anchor(lines, i, new_lines) ==
    IF i > Len(lines) THEN [new_lines |-> new_lines, added |-> FALSE]
    ELSE IF Contains(lines[i], <<ANCHOR>>)
         THEN LET j == WhileStop(lines, i + 1)
                  rest == ForLoop_every_anchor(lines, j, <<>>)
              IN [new_lines |-> Append(new_lines, lines[i]) \o SubSeq(lines, i + 1, j - 1)
                                    \o <<inserted_line>> \o rest.new_lines,
                  added |-> TRUE]
         ELSE ForLoop_every_anchor(lines, i + 1, Append(new_lines, lines[i]))
RECURSIVE ForLoop_append_when_missing(_, _, _)
ForLoop_append_when_missing(lines, i, new_lines) ==
    IF i > Len(lines) THEN [new_lines |-> Append(new_lines, inserted_line), added |-> TRUE]
    ELSE IF Contains(lines[i], <<ANCHOR>>)
         THEN LET j == WhileStop(lines, i + 1)
              IN [new_lines |-> Append(new_lines, lines[i]) \o SubSeq(lines, i + 1, j - 1)
                                    \o <<inserted_line>> \o SubSeq(lines, j, Len(lines)),
                  added |-> TRUE]
         ELSE ForLoop_append_when_missing(lines, i + 1, Append(new_lines, lines[i]))
RECURSIVE ForLoop(_, _, _)
ForLoop(lines, i, new_lines) ==
    IF i > Len(lines) THEN [new_lines |-> new_lines, added |-> FALSE]
    ELSE IF Contains(lines[i], <<ANCHOR>>)
         THEN LET j == WhileStop(lines, i + 1)
              IN [new_lines |-> Append(new_lines, lines[i]) \o SubSeq(lines, i + 1, j - 1)
                                    \o <<inserted_line>> \o SubSeq(lines, j, Len(lines)),
                  added |-> TRUE]
         ELSE ForLoop(lines, i + 1, Append(new_lines, lines[i]))

(* ----------------------------- substituter ---------------------------- *)

\* \s* from position k: the first position at or after k that holds no whitespace.
RECURSIVE SkipSpace(_, _)
SkipSpace(content, k) ==
    IF k <= Len(content) /\ IsSpace(content[k]) THEN SkipSpace(content, k + 1) ELSE k

\* The literal token lit at position k: the position after it, or 0.
Lit(content, k, lit) ==
    IF k > 0 /\ k <= Len(content) /\ content[k] = lit THEN k + 1 ELSE 0

\* pattern = r"headers: {\s*'Content-Type': 'application/json',\s*},\s*headers: getAuthHeaders\(\),"
\* matched at position k: the position after the match, or 0 when there is none.
\* Each \s* is followed by a literal that is no whitespace, so the greedy match
\* never backtracks.
pattern_no_space(content, k) ==
    LET a == Lit(content, k, HEADERS_OPEN)
        b == Lit(content, a, CONTENT_TYPE)
        c == Lit(content, b, CLOSE_BRACE)
    IN  Lit(content, c, HEADERS_AUTH)
pattern(content, k) ==
    LET a == Lit(content, k, HEADERS_OPEN)
        b == IF a = 0 THEN 0 ELSE Lit(content, SkipSpace(content, a), CONTENT_TYPE)
        c == IF b = 0 THEN 0 ELSE Lit(content, SkipSpace(content, b), CLOSE_BRACE)
    IN  IF c = 0 THEN 0 ELSE Lit(content, SkipSpace(content, c), HEADERS_AUTH)

\* re.sub(pattern, replacement, content) from position k on: leftmost matches,
\* one after the other, never overlapping.
RECURSIVE SubFrom_first_only(_, _)
SubFrom_first_only(content, k) ==
    IF k > Len(content) THEN <<>>
    ELSE IF pattern(content, k) # 0
         THEN replacement \o SubSeq(content, pattern(content, k), Len(content))
         ELSE <<content[k]>> \o SubFrom_first_only(content, k + 1)
RECURSIVE SubFrom(_, _)
SubFrom(content, k) ==
    IF k > Len(content) THEN <<>>
    ELSE IF pattern(content, k) # 0
         THEN replacement \o SubFrom(content, pattern(content, k))
         ELSE <<content[k]>> \o SubFrom(content, k + 1)

re_sub(content) == SubFrom(content, 1)


(* ------------------------------- state -------------------------------- *)

NoFile == "ENOENT"

VARIABLES
    fs,            \* path -> the file's text, or NoFile
    perm,          \* path -> "rw" | "r-" | "--": what the scripts' user may do
    util,          \* the script that runs or ran last: "injector" | "substituter" | "none"
    status,        \* "idle" | "running" | "exited" | "failed" | "crashed"
    idx,           \* position of filepath in the script's list
    pc,            \* "read" | "scan" | "open_w" | "write" | "print"
    lines,         \* injector: lines
    new_lines,     \* injector: new_lines
    added,         \* injector: added
    content,       \* substituter: content
    new_content,   \* substituter: new_content
    wpos,          \* tokens of the open file's data that reached the disk
    stdout,        \* the lines the running script printed
    orig,          \* fs when the running script started
    writes,        \* paths the running script opened for writing
    hist,          \* one record per ended run
    touched_inj,   \* paths the injector opened
    touched_sub    \* paths the substituter opened

vars == << fs, perm, util, status, idx, pc, lines, new_lines, added, content,
           new_content, wpos, stdout, orig, writes, hist, touched_inj, touched_sub >>

Files == IF util = "injector" THEN admin_files ELSE files_to_fix
filepath == Files[idx]

CanRead(path) == fs[path] # NoFile /\ perm[path] \in {"rw", "r-"}
CanWrite(path) == perm[path] = "rw"

EndOfRun(how, out) ==
    [util |-> util, status |-> how, idx |-> idx, fs |-> fs, perm |-> perm,
     stdout |-> out, writes |-> writes, orig |-> orig]

\* An uncaught exception: the traceback ends the process.
Raise_and_continue ==
    /\ IF idx < Len(Files)
       THEN /\ idx' = idx + 1
            /\ pc' = "read"
            /\ UNCHANGED << status, hist >>
       ELSE /\ status' = "exited"
            /\ hist' = Append(hist, EndOfRun("exited", stdout))
            /\ UNCHANGED << idx, pc >>
Raise ==
    /\ status' = "failed"
    /\ hist' = Append(hist, EndOfRun("failed", stdout))
    /\ UNCHANGED << idx, pc >>

\* The end of the for body: the next filepath, or the end of the script.
NextFile ==
    IF idx < Len(Files)
    THEN /\ idx' = idx + 1
         /\ pc' = "read"
         /\ UNCHANGED << status, hist >>
    ELSE /\ status' = "exited"
         /\ hist' = Append(hist, EndOfRun("exited", stdout'))
         /\ UNCHANGED << idx, pc >>

\* open(filepath, 'w'): the file is cut to nothing.
open_w(f, path) == [f EXCEPT ![path] = <<>>]

\* The first k tokens of data are on the disk.
flush_again(f, path, data, k) == [f EXCEPT ![path] = @ \o SubSeq(data, 1, k)]
flush(f, path, data, k) == [f EXCEPT ![path] = SubSeq(data, 1, k)]

Start(u) ==
    /\ status \in {"idle", "exited", "failed"}
    /\ Len(hist) < MaxRuns
    /\ util' = u
    /\ status' = "running"
    /\ idx' = 1
    /\ pc' = "read"
    /\ stdout' = <<>>
    /\ orig' = fs
    /\ writes' = {}
    /\ lines' = <<>> /\ new_lines' = <<>> /\ added' = FALSE
    /\ content' = <<>> /\ new_content' = <<>>
    /\ wpos' = 0
    /\ UNCHANGED << fs, perm, hist, touched_inj, touched_sub >>

(* --------------------------- injector steps --------------------------- *)

StartInjector == Start("injector")

\* with open(filepath, 'r') as f: lines = f.readlines()
InjOpenRead ==
    /\ util = "injector" /\ status = "running" /\ pc = "read"
    /\ touched_inj' = touched_inj \cup {filepath}
    /\ IF CanRead(filepath)
       THEN /\ lines' = readlines(fs[filepath])
            /\ pc' = "scan"
            /\ UNCHANGED << status, idx, hist >>
       ELSE /\ Raise
            /\ UNCHANGED lines
    /\ UNCHANGED << fs, perm, util, new_lines, added, content, new_content, wpos,
                    stdout, orig, writes, touched_sub >>

\* has_get_auth_headers, and the scan that builds new_lines
InjScan ==
    /\ util = "injector" /\ status = "running" /\ pc = "scan"
    /\ IF has_get_auth_headers(lines)
       THEN /\ pc' = "print"
            /\ UNCHANGED << new_lines, added >>
       ELSE LET r == ForLoop(lines, 1, <<>>)
            IN  /\ new_lines' = r.new_lines
                /\ added' = r.added
                /\ pc' = IF r.added THEN "open_w" ELSE "print"
    /\ UNCHANGED << fs, perm, util, status, idx, lines, content, new_content, wpos,
                    stdout, orig, writes, hist, touched_inj, touched_sub >>

\* with open(filepath, 'w') as f:
InjOpenWrite ==
    /\ util = "injector" /\ status = "running" /\ pc = "open_w"
    /\ IF CanWrite(filepath)
       THEN /\ fs' = open_w(fs, filepath)
            /\ writes' = writes \cup {filepath}
            /\ wpos' = 0
            /\ pc' = "write"
            /\ UNCHANGED << status, idx, hist >>
       ELSE /\ UNCHANGED << fs, writes, wpos >>
            /\ Raise
    /\ UNCHANGED << perm, util, lines, new_lines, added, content, new_content,
                    stdout, orig, touched_inj, touched_sub >>

\* f.writelines(new_lines), and the close that ends the with block: the data
\* reaches the disk in one or more pieces.
InjWrite ==
    /\ util = "injector" /\ status = "running" /\ pc = "write"
    /\ LET data == writelines(new_lines)
       IN  \E k \in (wpos + 1)..Len(data) :
             /\ fs' = flush(fs, filepath, data, k)
             /\ wpos' = k
             /\ pc' = IF k = Len(data) THEN "print" ELSE "write"
    /\ UNCHANGED << perm, util, status, idx, lines, new_lines, added, content,
                    new_content, stdout, orig, writes, hist, touched_inj, touched_sub >>

InjMessage ==
    IF has_get_auth_headers(lines) THEN "Already has getAuthHeaders"
    ELSE IF added THEN "Fixed" ELSE "Could not fix"

\* print(...), and the next turn of the for loop
InjPrint ==
    /\ util = "injector" /\ status = "running" /\ pc = "print"
    /\ stdout' = Append(stdout, [msg |-> InjMessage, path |-> filepath])
    /\ lines' = <<>> /\ new_lines' = <<>> /\ added' = FALSE /\ wpos' = 0
    /\ UNCHANGED << fs, writes >>
    /\ NextFile
    /\ UNCHANGED << perm, util, content, new_content, orig, touched_inj, touched_sub >>

NextInj ==
    \/ StartInjector
    \/ InjOpenRead
    \/ InjScan
    \/ InjOpenWrite
    \/ InjWrite
    \/ InjPrint

(* -------------------------- substituter steps ------------------------- *)

StartSubstituter == Start("substituter")

\* with open(filepath, 'r') as f: content = f.read()
SubOpenRead ==
    /\ util = "substituter" /\ status = "running" /\ pc = "read"
    /\ touched_sub' = touched_sub \cup {filepath}
    /\ IF CanRead(filepath)
       THEN /\ content' = fs[filepath]
            /\ pc' = "scan"
            /\ UNCHANGED << status, idx, hist >>
       ELSE /\ Raise
            /\ UNCHANGED content
    /\ UNCHANGED << fs, perm, util, lines, new_lines, added, new_content, wpos,
                    stdout, orig, writes, touched_inj >>

\* new_content = re.sub(pattern, replacement, content); if new_content != content
SubApply ==
    /\ util = "substituter" /\ status = "running" /\ pc = "scan"
    /\ new_content' = re_sub(content)
    /\ pc' = IF new_content' # content THEN "open_w" ELSE "print"
    /\ UNCHANGED << fs, perm, util, status, idx, lines, new_lines, added, content, wpos,
                    stdout, orig, writes, hist, touched_inj, touched_sub >>

\* with open(filepath, 'w') as f:
SubOpenWrite ==
    /\ util = "substituter" /\ status = "running" /\ pc = "open_w"
    /\ IF CanWrite(filepath)
       THEN /\ fs' = open_w(fs, filepath)
            /\ writes' = writes \cup {filepath}
            /\ wpos' = 0
            /\ pc' = "write"
            /\ UNCHANGED << status, idx, hist >>
       ELSE /\ UNCHANGED << fs, writes, wpos >>
            /\ Raise
    /\ UNCHANGED << perm, util, lines, new_lines, added, content, new_content,
                    stdout, orig, touched_inj, touched_sub >>

\* f.write(new_content), and the close that ends the with block
SubWrite ==
    /\ util = "substituter" /\ status = "running" /\ pc = "write"
    /\ \E k \in (wpos + 1)..Len(new_content) :
         /\ fs' = flush(fs, filepath, new_content, k)
         /\ wpos' = k
         /\ pc' = IF k = Len(new_content) THEN "print" ELSE "write"
    /\ UNCHANGED << perm, util, status, idx, lines, new_lines, added, content,
                    new_content, stdout, orig, writes, hist, touched_inj, touched_sub >>

SubMessage ==
    IF new_content # content THEN "Fixed duplicate headers in" ELSE "No changes needed in"

\* print(...), and the next turn of the for loop
SubPrint ==
    /\ util = "substituter" /\ status = "running" /\ pc = "print"
    /\ stdout' = Append(stdout, [msg |-> SubMessage, path |-> filepath])
    /\ content' = <<>> /\ new_content' = <<>> /\ wpos' = 0
    /\ UNCHANGED << fs, writes >>
    /\ NextFile
    /\ UNCHANGED << perm, util, lines, new_lines, added, orig, touched_inj, touched_sub >>

NextSub ==
    \/ StartSubstituter
    \/ SubOpenRead
    \/ SubApply
    \/ SubOpenWrite
    \/ SubWrite
    \/ SubPrint

\* The process is killed, or the machine stops, at any point of a run.
Crash ==
    /\ status = "running"
    /\ status' = "crashed"
    /\ UNCHANGED << fs, perm, util, idx, pc, lines, new_lines, added, content,
                    new_content, wpos, stdout, orig, writes, hist, touched_inj,
                    touched_sub >>

Next == NextInj \/ NextSub \/ Crash

(* --------------------------- initial states --------------------------- *)

\* All texts of at most n tokens of the set T.
RECURSIVE TextsUpTo(_, _)
TextsUpTo(n, T) ==
    IF n = 0 THEN { <<>> }
    ELSE LET S == TextsUpTo(n - 1, T)
         IN  S \cup { Append(s, t) : s \in { x \in S : Len(x) = n - 1 }, t \in T }

InjTokens == { ANCHOR, CONST, MARKER_TAIL, NL, TEXT }
SubTokens == { HEADERS_OPEN, CONTENT_TYPE, CLOSE_BRACE, HEADERS_AUTH, NL, TEXT }

\* Pieces of a page that holds fetch calls.
Blocks ==
    { << HEADERS_OPEN, CONTENT_TYPE, CLOSE_BRACE, HEADERS_AUTH >>,
      << HEADERS_OPEN, NL, SP, CONTENT_TYPE, NL, CLOSE_BRACE, NL, SP, HEADERS_AUTH >>,
      << HEADERS_OPEN, CONTENT_TYPE, CLOSE_BRACE >>,
      << CONTENT_TYPE, CLOSE_BRACE, HEADERS_AUTH >>,
      << HEADERS_OPEN >>, << HEADERS_AUTH >>, << TEXT >>, << NL >> }

RECURSIVE BlockTexts(_)
BlockTexts(n) ==
    IF n = 0 THEN { <<>> }
    ELSE LET S == BlockTexts(n - 1) IN S \cup { s \o b : s \in S, b \in Blocks }

\* A page that both scripts patch, and a page that neither patches.
PageUnpatched ==
    << ANCHOR, NL, CONST, NL, HEADERS_OPEN, CONTENT_TYPE, CLOSE_BRACE, HEADERS_AUTH >>
PagePlain == << TEXT, NL, HEADERS_OPEN, TEXT >>
SmallContents == { PageUnpatched, PagePlain }

InitRest ==
    /\ util = "none" /\ status = "idle" /\ idx = 1 /\ pc = "read"
    /\ lines = <<>> /\ new_lines = <<>> /\ added = FALSE
    /\ content = <<>> /\ new_content = <<>>
    /\ wpos = 0 /\ stdout = <<>> /\ orig = fs /\ writes = {} /\ hist = <<>>
    /\ touched_inj = {} /\ touched_sub = {}

\* Every file there and writable, every file with the same text.
InitInj ==
    /\ \E c \in TextsUpTo(MaxLen, InjTokens) : fs = [p \in Paths |-> c]
    /\ perm = [p \in Paths |-> "rw"]
    /\ InitRest

InitSub ==
    /\ \E c \in TextsUpTo(MaxLen, SubTokens) \cup BlockTexts(MaxBlocks) :
            fs = [p \in Paths |-> c]
    /\ perm = [p \in Paths |-> "rw"]
    /\ InitRest

\* The pages both scripts patch hold c, the others d; at most MaxFaults files are
\* missing ("gone"), unreadable ("--") or read-only ("r-").
Init ==
    /\ \E c \in SmallContents, d \in SmallContents :
       \E faulty \in { F \in SUBSET Paths : Cardinality(F) <= MaxFaults } :
       \E kind \in [faulty -> {"gone", "--", "r-"}] :
          /\ fs = [p \in Paths |-> IF p \in faulty /\ kind[p] = "gone" THEN NoFile
                                   ELSE IF p \in Range(files_to_fix) THEN c ELSE d]
          /\ perm = [p \in Paths |-> IF p \in faulty /\ kind[p] # "gone"
                                     THEN kind[p] ELSE "rw"]
    /\ InitRest

Spec == Init /\ [][Next]_vars
SpecInj == InitInj /\ [][NextInj]_vars
SpecSub == InitSub /\ [][NextSub]_vars


(* ------------------- what the scripts are meant to do ------------------ *)

Min(S) == CHOOSE m \in S : \A n \in S : m <= n
Max(S) == CHOOSE m \in S : \A n \in S : m >= n

Positions(text, t) == { k \in 1..Len(text) : text[k] = t }
LinesWith(ls, t) == { k \in 1..Len(ls) : Contains(ls[k], <<t>>) }

\* The text the injector is meant to leave: the inserted line placed at the start
\* of the first line with 'const' after the first anchor line, or at the end.
InjExpected(text) ==
    IF text = NoFile THEN NoFile
    ELSE IF Contains(text, marker) \/ Positions(text, ANCHOR) = {} THEN text
    ELSE LET a == Min(Positions(text, ANCHOR))
             ends == { k \in Positions(text, NL) : k > a }
             eol == IF ends = {} THEN Len(text) ELSE Min(ends)
             consts == { k \in Positions(text, CONST) : k > eol }
         IN  IF consts = {} THEN text \o inserted_line
             ELSE LET c == Min(consts)
                      start == Max({0} \cup { k \in Positions(text, NL) : k < c }) + 1
                  IN  SubSeq(text, 1, start - 1) \o inserted_line
                          \o SubSeq(text, start, Len(text))

InjExpectedMessage(text) ==
    IF Contains(text, marker) THEN "Already has getAuthHeaders"
    ELSE IF Positions(text, ANCHOR) = {} THEN "Could not fix" ELSE "Fixed"

\* text[s..e] is a match of the pattern: the four literals in order, with nothing
\* but whitespace between them.
IsMatch(text, s, e) ==
    /\ 1 <= s /\ s < e /\ e <= Len(text)
    /\ text[s] = HEADERS_OPEN /\ text[e] = HEADERS_AUTH
    /\ \E i \in (s + 1)..(e - 1) : \E j \in (i + 1)..(e - 1) :
         /\ text[i] = CONTENT_TYPE /\ text[j] = CLOSE_BRACE
         /\ \A k \in (s + 1)..(e - 1) : k \notin {i, j} => IsSpace(text[k])

MatchStarts(text, from) ==
    { s \in from..Len(text) : \E e \in s..Len(text) : IsMatch(text, s, e) }

\* The text with every leftmost non-overlapping match, from position `from` on,
\* replaced by the replacement block.
RECURSIVE SubExpectedFrom(_, _)
SubExpectedFrom(text, from) ==
    IF MatchStarts(text, from) = {} THEN SubSeq(text, from, Len(text))
    ELSE LET s == Min(MatchStarts(text, from))
             e == Min({ x \in s..Len(text) : IsMatch(text, s, x) })
         IN  SubSeq(text, from, s - 1) \o replacement \o SubExpectedFrom(text, e + 1)

SubExpected(text) == IF text = NoFile THEN NoFile ELSE SubExpectedFrom(text, 1)

SubExpectedMessage(text) ==
    IF SubExpected(text) # text THEN "Fixed duplicate headers in" ELSE "No changes needed in"

Expected(u, text) == IF u = "injector" THEN InjExpected(text) ELSE SubExpected(text)
ExpectedMessage(u, text) ==
    IF u = "injector" THEN InjExpectedMessage(text) ELSE SubExpectedMessage(text)
ListOf(u) == IF u = "injector" THEN admin_files ELSE files_to_fix

\* The outcome lines printed for a path: by the current run, and by an ended run.
PrintedNow(path) == { stdout[k].msg : k \in { x \in 1..Len(stdout) : stdout[x].path = path } }
Printed(h, path) == { h.stdout[k].msg : k \in { x \in 1..Len(h.stdout) : h.stdout[x].path = path } }

\* The script u ran to its normal end and no other run has started since.
RanToEnd(u) == util = u /\ status = "exited"

\* The record of the run before the current one (an ended run has its own record
\* last in hist).
PrevIndex == IF status \in {"exited", "failed"} THEN Len(hist) - 1 ELSE Len(hist)
SecondRun(u) ==
    /\ util = u /\ PrevIndex >= 1
    /\ hist[PrevIndex].util = u /\ hist[PrevIndex].status = "exited"

(* ------------------------- injector properties ------------------------ *)

MarkerLine(ls) == \E k \in 1..Len(ls) : Contains(ls[k], marker)
FirstAnchorLine(ls) == Min(LinesWith(ls, ANCHOR))
ConstLinesAfterAnchor(ls) == { k \in LinesWith(ls, CONST) : k > FirstAnchorLine(ls) }

\* No marker line, an anchor line, and a line with 'const' after the first anchor line.
HasInsertionPoint(ls) ==
    /\ ~MarkerLine(ls)
    /\ LinesWith(ls, ANCHOR) # {}
    /\ ConstLinesAfterAnchor(ls) # {}

\* No marker line, an anchor line, and no line with 'const' after the first anchor line.
OnlyEndOfFile(ls) ==
    /\ ~MarkerLine(ls)
    /\ LinesWith(ls, ANCHOR) # {}
    /\ ConstLinesAfterAnchor(ls) = {}

Scanned == util = "injector" /\ pc \in {"open_w", "write", "print"}

\* C1: a second run of the injector, after a first that ran to its end, changes no
\* file at any moment and leaves every text as the first run left it; a file the
\* first run reported as Fixed is not opened for writing by the second and is
\* reported as 'Already has getAuthHeaders'.
C1_InjectorIdempotent ==
    SecondRun("injector")
    => /\ fs = hist[PrevIndex].fs
       /\ writes = {}
       /\ status = "exited"
          => \A p \in Range(admin_files) :
               "Fixed" \in Printed(hist[PrevIndex], p)
               => PrintedNow(p) = {"Already has getAuthHeaders"}

C1_Witness ==
    /\ SecondRun("injector") /\ status = "exited"
    /\ "Fixed" \in Printed(hist[PrevIndex], admin_files[1])
    /\ LET t == hist[PrevIndex].orig[admin_files[1]] IN t[Len(t)] # NL

C4_MarkerFileUntouched ==
    util = "injector"
    => \A p \in Range(admin_files) :
         (orig[p] # NoFile /\ Contains(orig[p], marker))
         => /\ fs[p] = orig[p]
            /\ p \notin writes
            /\ status = "exited" => PrintedNow(p) = {"Already has getAuthHeaders"}

C4_Witness ==
    LET t == orig[admin_files[1]]
    IN  /\ RanToEnd("injector")
        /\ Contains(t, marker) /\ Positions(t, ANCHOR) # {}
        /\ ~Contains(readlines(t)[1], marker)

\* C5 as stated: a file without the anchor string keeps its text and is reported
\* as 'Could not fix'.
C5_NoAnchorCouldNotFix ==
    RanToEnd("injector")
    => \A p \in Range(admin_files) :
         (orig[p] # NoFile /\ Positions(orig[p], ANCHOR) = {})
         => /\ fs[p] = orig[p]
            /\ PrintedNow(p) = {"Could not fix"}

\* C5 as amended: a file without the anchor string keeps its text and is not opened
\* for writing; it is reported as 'Could not fix' when it holds no presence marker
\* either, and as 'Already has getAuthHeaders' when it holds one.
C5_NoAnchorUnchanged ==
    util = "injector"
    => \A p \in Range(admin_files) :
         (orig[p] # NoFile /\ Positions(orig[p], ANCHOR) = {})
         => /\ fs[p] = orig[p]
            /\ p \notin writes
            /\ status = "exited"
               => PrintedNow(p) = { IF Contains(orig[p], marker)
                                    THEN "Already has getAuthHeaders" ELSE "Could not fix" }

C5_Witness ==
    LET t == orig[admin_files[1]]
    IN  /\ RanToEnd("injector")
        /\ Positions(t, ANCHOR) = {} /\ ~Contains(t, marker) /\ t # <<>>
        /\ PrintedNow(admin_files[1]) = {"Could not fix"}

\* C6: with no marker line, an anchor line and no line with 'const' after the first
\* anchor line, new_lines is lines followed by the inserted line, the file is
\* written with it and reported as Fixed.
C6_AppendAtEndOfFile ==
    /\ (Scanned /\ OnlyEndOfFile(lines))
       => /\ added
          /\ new_lines = Append(lines, inserted_line)
          /\ pc = "print" => fs[filepath] = orig[filepath] \o inserted_line
    /\ RanToEnd("injector")
       => \A p \in Range(admin_files) :
            (orig[p] # NoFile /\ OnlyEndOfFile(readlines(orig[p])))
            => /\ fs[p] = orig[p] \o inserted_line
               /\ p \in writes
               /\ PrintedNow(p) = {"Fixed"}

C6_Witness ==
    LET ls == readlines(orig[admin_files[1]])
    IN  /\ RanToEnd("injector")
        /\ OnlyEndOfFile(ls)
        /\ FirstAnchorLine(ls) < Len(ls)
        /\ PrintedNow(admin_files[1]) = {"Fixed"}

(* ------------------------ substituter properties ---------------------- *)

\* C2: a second run of the substituter, after a first that ran to its end, changes
\* no file at any moment, opens none for writing and reports 'No changes needed in'
\* for every file; no file the first run left holds a match of the pattern.
C2_SubstituterIdempotent ==
    SecondRun("substituter")
    => /\ fs = hist[PrevIndex].fs
       /\ writes = {}
       /\ status = "exited"
          => \A p \in Range(files_to_fix) :
               /\ PrintedNow(p) = {"No changes needed in"}
               /\ MatchStarts(hist[PrevIndex].fs[p], 1) = {}

C2_Witness ==
    /\ SecondRun("substituter") /\ status = "exited"
    /\ "Fixed duplicate headers in" \in Printed(hist[PrevIndex], files_to_fix[1])
    /\ LET t == hist[PrevIndex].orig[files_to_fix[1]]
       IN  \E s \in MatchStarts(t, 1) : s > 1 /\ t[s - 1] = HEADERS_OPEN

\* C7: after a run of the substituter every file of its list holds its text with
\* each leftmost non-overlapping match replaced by the replacement block and the
\* rest as it was; the file is opened for writing and reported as 'Fixed duplicate
\* headers in' exactly when that differs from the text read, and is otherwise
\* reported as 'No changes needed in'.
C7_SubstituterResult ==
    /\ RanToEnd("substituter")
       => /\ \A p \in Range(files_to_fix) :
               LET t == orig[p]
               IN  /\ fs[p] = SubExpected(t)
                   /\ p \in writes <=> SubExpected(t) # t
                   /\ PrintedNow(p) = { SubExpectedMessage(t) }
          /\ \A p \in Paths \ Range(files_to_fix) : fs[p] = orig[p]
    /\ (util = "substituter" /\ pc = "open_w")
       => /\ new_content = SubExpected(content)
          /\ fs[filepath] = content

C7_Witness ==
    LET t == orig[files_to_fix[1]]
    IN  /\ RanToEnd("substituter")
        /\ Cardinality(MatchStarts(t, 1)) >= 2
        /\ \E s \in MatchStarts(t, 1) : IsSpace(t[s + 1])
        /\ files_to_fix[1] \in writes

(* ----------------------- properties of whole runs --------------------- *)

\* C8 as stated: no path the injector opens is opened by the substituter.
C8_DisjointPaths == touched_inj \cap touched_sub = {}

\* C8 as amended: the lists overlap.  The substituter opens only users/[id],
\* users and time-entries, which the injector opens too; audit, roles, projects
\* and reports are opened by the injector alone.
C8_SharedPaths ==
    /\ touched_sub \subseteq {"users/[id]/page.tsx", "users/page.tsx", "time-entries/page.tsx"}
    /\ touched_inj \subseteq
           {"audit/page.tsx", "users/page.tsx", "users/[id]/page.tsx", "roles/page.tsx",
            "projects/page.tsx", "time-entries/page.tsx", "reports/page.tsx"}
    /\ touched_sub \cap {"audit/page.tsx", "roles/page.tsx", "projects/page.tsx", "reports/page.tsx"} = {}

C8_Witness ==
    touched_inj \cap touched_sub =
        {"users/[id]/page.tsx", "users/page.tsx", "time-entries/page.tsx"}

\* C9: at every point of a run, interrupted or not, every file holds the text it
\* had when the run started or its complete patched text, except the one file being
\* written, which may hold a prefix of its patched text; from a file's read to the
\* opening for writing the file holds its original text.
C9_CrashSafe ==
    /\ \A p \in Paths :
         \/ fs[p] = orig[p]
         \/ /\ p \in Range(Files)
            /\ fs[p] = Expected(util, orig[p])
         \/ /\ p = filepath /\ pc = "write"
            /\ IsPrefix(fs[p], Expected(util, orig[p]))
    /\ pc \in {"scan", "open_w"} => fs[filepath] = orig[filepath]

C9_Witness ==
    /\ status = "crashed" /\ pc = "write" /\ idx > 1
    /\ fs[filepath] # <<>>
    /\ fs[filepath] # orig[filepath]
    /\ fs[filepath] # Expected(util, orig[filepath])
    /\ fs[Files[1]] # orig[Files[1]]

\* The first file of the running script's list whose opening fails: it is gone, or
\* may not be read, or has to be written and may not be.
OpenFails(k) ==
    LET p == Files[k]
    IN  \/ orig[p] = NoFile
        \/ perm[p] = "--"
        \/ perm[p] = "r-" /\ Expected(util, orig[p]) # orig[p]
FirstFailure ==
    LET F == { k \in 1..Len(Files) : OpenFails(k) }
    IN  IF F = {} THEN Len(Files) + 1 ELSE Min(F)

\* C10: a run ends at the first file whose opening fails.  That file and the later
\* ones are never written and get no outcome line; the run does not reach its
\* normal end; when it has failed, every earlier file holds its patched text and
\* has its outcome line, in the order of the list.
C10_OpenFailureEndsRun ==
    util # "none"
    => LET first == FirstFailure
       IN  /\ \A k \in first..Len(Files) :
                /\ fs[Files[k]] = orig[Files[k]]
                /\ Files[k] \notin writes
                /\ PrintedNow(Files[k]) = {}
           /\ first <= Len(Files) => status # "exited"
           /\ status = "failed"
              => /\ idx = first
                 /\ Len(stdout) = idx - 1
                 /\ \A k \in 1..(idx - 1) :
                      /\ stdout[k] = [msg |-> ExpectedMessage(util, orig[Files[k]]),
                                      path |-> Files[k]]
                      /\ fs[Files[k]] = Expected(util, orig[Files[k]])

C10_Witness ==
    /\ status = "failed" /\ idx > 1 /\ idx < Len(Files)
    /\ writes # {}
    /\ Expected(util, orig[Files[idx + 1]]) # orig[Files[idx + 1]]

====
